---- MODULE Spec2Model ----
(***************************************************************************)
(* imbl-indexed: an insertion-ordered persistent map (IndexMap) made of a  *)
(* hash -> position index laid over a slot vector of Option<Bucket>, and   *)
(* the IndexSet wrapper built on it.                                       *)
(*                                                                         *)
(* Option<T> is modelled as a sequence of length 0 (None) or 1 (Some(x)).  *)
(* Slot positions are zero-based as in the source; TLA+ sequences are      *)
(* one-based, so position idx is element idx + 1 of the entries sequence.  *)
(***************************************************************************)
EXTENDS Integers, Sequences, FiniteSets

\* ------------------------------------------------------------------ bounds
NumKeys == 3
NumValues == 2
MaxSlots == 3
MaxOps == 4
HashMod == 2
MaxLen == 3
MaxRepeat == 3

Keys == 1..NumKeys
Values == 1..NumValues
Handles == {"a", "b"}

\* ------------------------------------------------------------------ Option
None == << >>
Some(x) == << x >>

\* ------------------------------------------------------------- hash strategy
\* A BuildHasher is a deterministic function from keys to hash codes.  One
\* strategy gives every key its own code, the other one lets keys collide.
HashStrategies ==
    { [k \in Keys |-> k], [k \in Keys |-> k % HashMod] }

Injective(f, S) == \A x, y \in S : f[x] = f[y] => x = y

\* ------------------------------------------------------------------- state
VARIABLES
    maps,       \* the live IndexMap values, one per program variable (handle)
    panicked,   \* TRUE once an operation has panicked (the program has ended)
    model,      \* per handle: the reference association list of its lineage
    touched,    \* per handle: the keys its lineage has been called with
    iter_state, \* the consuming iterator in flight, if any
    ops,        \* the number of operations executed so far
    receiver,   \* the still-live receiver of the last functional call, as
                \* it was before the call: None or Some([handle, before])
    source      \* the sequence a collection was collected from: None or
                \* Some([kind, handle, items])

vars == << maps, panicked, model, touched, iter_state, ops, receiver, source >>

Bucket(key, value) == [key |-> key, value |-> value]

\* ------------------------------------------------- the two persistent parts
\* imbl::Vector::get: None past the end.
EntriesGet(entries, idx) ==
    IF idx < Len(entries) THEN Some(entries[idx + 1]) ELSE None

\* imbl::Vector::update / IndexMut / get_mut(..).unwrap() / remove all panic
\* on a position past the end.
OutOfBounds(entries, idx) == idx >= Len(entries)

EntriesUpdate(entries, idx, slot) == [entries EXCEPT ![idx + 1] = slot]

EntriesRemove(entries, idx) ==
    SubSeq(entries, 1, idx) \o SubSeq(entries, idx + 2, Len(entries))

IndicesGet(indices, h) ==
    IF h \in DOMAIN indices THEN Some(indices[h]) ELSE None

IndicesInsert(indices, h, idx) ==
    [x \in (DOMAIN indices) \cup {h} |-> IF x = h THEN idx ELSE indices[x]]

IndicesWithout(indices, h) ==
    [x \in (DOMAIN indices) \ {h} |-> indices[x]]

\* ----------------------------------------------------------------- IndexMap
with_hasher(hash_builder) ==
    [indices |-> [x \in {} |-> 0], entries |-> << >>,
     hash_builder |-> hash_builder]

hash(m, key) == m.hash_builder[key]

IsSome(slot) == slot # None

\* iter: the Present slots in ascending position, as (key, value) pairs.
RECURSIVE Flatten(_)
Flatten(entries) ==
    IF entries = << >> THEN << >>
    ELSE IF IsSome(Head(entries))
         THEN << << Head(entries)[1].key, Head(entries)[1].value >> >>
              \o Flatten(Tail(entries))
         ELSE Flatten(Tail(entries))

iter(m) == Flatten(m.entries)

len(m) == Len(m.entries)

is_empty(m) == m.entries = << >>

\* A slip: the stored key is not compared with the probe key.
getUnchecked(m, key) ==
    LET found == IndicesGet(m.indices, hash(m, key))
        slot  == IF found = None THEN None ELSE EntriesGet(m.entries, found[1])
        e     == IF slot = None THEN None ELSE slot[1]
    IN  IF e # None THEN Some(e[1].value) ELSE None

get(m, key) ==
    LET found == IndicesGet(m.indices, hash(m, key))
        slot  == IF found = None THEN None ELSE EntriesGet(m.entries, found[1])
        e     == IF slot = None THEN None ELSE slot[1]
    IN  IF e # None /\ e[1].key = key THEN Some(e[1].value) ELSE None

contains_key(m, key) ==
    LET found == IndicesGet(m.indices, hash(m, key))
        slot  == IF found = None THEN None ELSE EntriesGet(m.entries, found[1])
        e     == IF slot = None THEN None ELSE slot[1]
    IN  e # None /\ e[1].key = key

eq(a, b) ==
    /\ len(a) = len(b)
    /\ \A i \in 1..Len(iter(a)) : get(b, iter(a)[i][1]) = Some(iter(a)[i][2])

\* insert and update take the same branch on the same test; both panic when
\* the tracked position lies past the end of the slot vector.
WritePanics(m, key) ==
    LET found == IndicesGet(m.indices, hash(m, key))
    IN  found # None /\ OutOfBounds(m.entries, found[1])

\* A slip: the in-place write to a tracked hash keeps the stored key.
insertKeepKey(m, key, value) ==
    LET h     == hash(m, key)
        found == IndicesGet(m.indices, h)
    IN  IF found # None
        THEN [m EXCEPT !.entries =
                 EntriesUpdate(m.entries, found[1],
                     IF IsSome(m.entries[found[1] + 1])
                     THEN Some(Bucket(m.entries[found[1] + 1][1].key, value))
                     ELSE Some(Bucket(key, value)))]
        ELSE [m EXCEPT !.indices = IndicesInsert(m.indices, h, Len(m.entries)),
                       !.entries = Append(m.entries, Some(Bucket(key, value)))]

\* A slip: a new key is indexed one position too far.
insertStalePosition(m, key, value) ==
    LET h     == hash(m, key)
        found == IndicesGet(m.indices, h)
    IN  IF found # None
        THEN [m EXCEPT !.entries =
                 EntriesUpdate(m.entries, found[1], Some(Bucket(key, value)))]
        ELSE [m EXCEPT !.indices =
                 IndicesInsert(m.indices, h, Len(m.entries) + 1),
                       !.entries = Append(m.entries, Some(Bucket(key, value)))]

insert(m, key, value) ==
    LET h     == hash(m, key)
        found == IndicesGet(m.indices, h)
    IN  IF found # None
        THEN [m EXCEPT !.entries =
                 EntriesUpdate(m.entries, found[1], Some(Bucket(key, value)))]
        ELSE [m EXCEPT !.indices = IndicesInsert(m.indices, h, Len(m.entries)),
                       !.entries = Append(m.entries, Some(Bucket(key, value)))]

\* A slip: the index is not consulted and every write pushes a new slot.
updateAlwaysPush(m, key, value) ==
    [m EXCEPT !.indices = IndicesInsert(m.indices, hash(m, key), Len(m.entries)),
              !.entries = Append(m.entries, Some(Bucket(key, value)))]

\* A slip: the position of a new key is read after the push.
updateStalePosition(m, key, value) ==
    LET h     == hash(m, key)
        found == IndicesGet(m.indices, h)
    IN  IF found # None
        THEN [m EXCEPT !.entries =
                 EntriesUpdate(m.entries, found[1], Some(Bucket(key, value)))]
        ELSE [m EXCEPT !.indices =
                 IndicesInsert(m.indices, h, Len(m.entries) + 1),
                       !.entries = Append(m.entries, Some(Bucket(key, value)))]

\* A slip: a write to a present key tombstones its slot and appends anew.
updateMoveToBack(m, key, value) ==
    LET h     == hash(m, key)
        found == IndicesGet(m.indices, h)
        base  == IF found # None
                 THEN EntriesUpdate(m.entries, found[1], None)
                 ELSE m.entries
    IN  [m EXCEPT !.indices = IndicesInsert(m.indices, h, Len(base)),
                  !.entries = Append(base, Some(Bucket(key, value)))]

\* A slip: a key whose hash is tracked under another key is chained behind
\* it: pushed and indexed anew, the older slot left in place.
updateChained(m, key, value) ==
    LET h     == hash(m, key)
        found == IndicesGet(m.indices, h)
    IN  IF /\ found # None
           /\ ~(/\ IsSome(m.entries[found[1] + 1])
                /\ m.entries[found[1] + 1][1].key # key)
        THEN [m EXCEPT !.entries =
                 EntriesUpdate(m.entries, found[1], Some(Bucket(key, value)))]
        ELSE [m EXCEPT !.indices = IndicesInsert(m.indices, h, Len(m.entries)),
                       !.entries = Append(m.entries, Some(Bucket(key, value)))]

update(m, key, value) ==
    LET h     == hash(m, key)
        found == IndicesGet(m.indices, h)
    IN  IF found # None
        THEN [m EXCEPT !.entries =
                 EntriesUpdate(m.entries, found[1], Some(Bucket(key, value)))]
        ELSE [m EXCEPT !.indices = IndicesInsert(m.indices, h, Len(m.entries)),
                       !.entries = Append(m.entries, Some(Bucket(key, value)))]

\* A slip: the slot is tombstoned but its hash stays in the index.
withoutKeepIndex(m, key) ==
    LET h     == hash(m, key)
        found == IndicesGet(m.indices, h)
    IN  IF found # None
        THEN [m EXCEPT !.entries = EntriesUpdate(m.entries, found[1], None)]
        ELSE m

\* A slip: the slot is deleted, as remove does, instead of tombstoned.
withoutShift(m, key) ==
    LET h     == hash(m, key)
        found == IndicesGet(m.indices, h)
    IN  IF found # None
        THEN [m EXCEPT !.indices = IndicesWithout(m.indices, h),
                       !.entries = EntriesRemove(m.entries, found[1])]
        ELSE m

without(m, key) ==
    LET h     == hash(m, key)
        found == IndicesGet(m.indices, h)
    IN  IF found # None
        THEN [m EXCEPT !.indices = IndicesWithout(m.indices, h),
                       !.entries = EntriesUpdate(m.entries, found[1], None)]
        ELSE m

\* A slip: the slot is tombstoned, as without does, instead of deleted.
removeTombstone(m, key) ==
    LET h     == hash(m, key)
        found == IndicesGet(m.indices, h)
    IN  IF found # None
        THEN IF OutOfBounds(m.entries, found[1])
             THEN [m EXCEPT !.indices = IndicesWithout(m.indices, h)]
             ELSE [m EXCEPT !.indices = IndicesWithout(m.indices, h),
                            !.entries = EntriesUpdate(m.entries, found[1], None)]
        ELSE m

\* remove drops the hash first and then deletes the slot; when the deletion
\* panics the index has already lost the hash.
remove(m, key) ==
    LET h     == hash(m, key)
        found == IndicesGet(m.indices, h)
    IN  IF found # None
        THEN IF OutOfBounds(m.entries, found[1])
             THEN [m EXCEPT !.indices = IndicesWithout(m.indices, h)]
             ELSE [m EXCEPT !.indices = IndicesWithout(m.indices, h),
                            !.entries = EntriesRemove(m.entries, found[1])]
        ELSE m

\* A slip: a key that is already in the map keeps its first value.
from_iterKeepFirst(hash_builder, pairs) ==
    LET RECURSIVE Loop(_, _)
        Loop(set, rest) ==
            IF rest = << >> THEN set
            ELSE IF contains_key(set, Head(rest)[1])
                 THEN Loop(set, Tail(rest))
                 ELSE Loop(insert(set, Head(rest)[1], Head(rest)[2]), Tail(rest))
    IN  Loop(with_hasher(hash_builder), pairs)

\* FromIterator: let mut set = Self::new(); for (key, value) in iter
\* { set.insert(key, value); } set.  Self::new() takes S::default().
from_iter(hash_builder, pairs) ==
    LET RECURSIVE Loop(_, _)
        Loop(set, rest) ==
            IF rest = << >> THEN set
            ELSE Loop(insert(set, Head(rest)[1], Head(rest)[2]), Tail(rest))
    IN  Loop(with_hasher(hash_builder), pairs)

KeysOfPairs(pairs) == [i \in 1..Len(pairs) |-> pairs[i][1]]

\* The slot vector grows only when the hash is not tracked yet.
Grows(m, key) == IndicesGet(m.indices, hash(m, key)) = None

\* ----------------------------------------------------------------- IndexSet
\* IndexSet<T, S> wraps one IndexMap<T, (), S>; a set is held as that map.
Unit == "()"

set_iter(s) == KeysOfPairs(iter(s))

set_contains(s, item) == contains_key(s, item)

set_eq(a, b) == eq(a, b)

set_len(s) == len(s)

set_is_empty(s) == is_empty(s)

set_insert(s, item) == update(s, item, Unit)

set_without(s, item) == without(s, item)

\* FromIterator for IndexSet: let mut set = Self::new(); for item in iter
\* { set = set.insert(item); } set.
set_from_iter(hash_builder, items) ==
    LET RECURSIVE Loop(_, _)
        Loop(set, rest) ==
            IF rest = << >> THEN set
            ELSE Loop(set_insert(set, Head(rest)), Tail(rest))
    IN  Loop(with_hasher(hash_builder), items)

\* -------------------------------------------------- the reference mapping
\* An association list in insertion order: a write replaces in place or
\* appends, a deletion drops the pair.
RECURSIVE RefWrite(_, _, _)
RefWrite(ref, key, value) ==
    IF ref = << >> THEN << << key, value >> >>
    ELSE IF Head(ref)[1] = key THEN << << key, value >> >> \o Tail(ref)
    ELSE << Head(ref) >> \o RefWrite(Tail(ref), key, value)

RECURSIVE RefDelete(_, _)
RefDelete(ref, key) ==
    IF ref = << >> THEN << >>
    ELSE IF Head(ref)[1] = key THEN Tail(ref)
    ELSE << Head(ref) >> \o RefDelete(Tail(ref), key)

RefGet(ref, key) ==
    IF \E i \in 1..Len(ref) : ref[i][1] = key
    THEN Some(ref[CHOOSE i \in 1..Len(ref) : ref[i][1] = key][2])
    ELSE None

\* The consuming iterator: the handle whose map it took, the slots it has
\* not read yet, the pairs it has yielded, and whether next() returned None.
NoIter == [active |-> FALSE, kind |-> "into_iter", handle |-> "a",
           entries |-> << >>, out |-> << >>, done |-> FALSE]

\* ------------------------------------------------------------------ actions
Init ==
    /\ maps \in [Handles -> { with_hasher(hb) : hb \in HashStrategies }]
    /\ panicked = FALSE
    /\ model = [h \in Handles |-> << >>]
    /\ touched = [h \in Handles |-> {}]
    /\ iter_state = NoIter
    /\ ops = 0
    /\ receiver = None
    /\ source = None

Idle == ~panicked /\ ~iter_state.active

Step == ops < MaxOps /\ ops' = ops + 1

\* What a functional call src -> dst leaves behind: the borrowed receiver,
\* unless the result was bound to the receiver's own variable.
Borrowed(src, dst) ==
    IF src = dst THEN None ELSE Some([handle |-> src, before |-> maps[src]])

\* IndexMap::new(): S::default() supplies the hash strategy.
New(h, hb) ==
    /\ Idle
    /\ Step
    /\ maps' = [maps EXCEPT ![h] = with_hasher(hb)]
    /\ model' = [model EXCEPT ![h] = << >>]
    /\ touched' = [touched EXCEPT ![h] = {}]
    /\ receiver' = None
    /\ UNCHANGED << panicked, iter_state, source >>

\* h.insert(key, value), in place.
Insert(h, key, value) ==
    /\ Idle
    /\ Step
    /\ Grows(maps[h], key) => Len(maps[h].entries) < MaxSlots
    /\ IF WritePanics(maps[h], key)
       THEN /\ panicked' = TRUE
            /\ UNCHANGED << maps, model, touched >>
       ELSE /\ maps' = [maps EXCEPT ![h] = insert(maps[h], key, value)]
            /\ model' = [model EXCEPT ![h] = RefWrite(model[h], key, value)]
            /\ touched' = [touched EXCEPT ![h] = touched[h] \cup {key}]
            /\ UNCHANGED panicked
    /\ receiver' = None
    /\ UNCHANGED << iter_state, source >>

\* A slip: the write lands in the receiver's own storage as well.
UpdateAliased(src, dst, key, value) ==
    /\ Idle
    /\ Step
    /\ Grows(maps[src], key) => Len(maps[src].entries) < MaxSlots
    /\ ~WritePanics(maps[src], key)
    /\ maps' = [maps EXCEPT ![src] = update(maps[src], key, value),
                            ![dst] = update(maps[src], key, value)]
    /\ model' = [model EXCEPT ![dst] = RefWrite(model[src], key, value)]
    /\ touched' = [touched EXCEPT ![dst] = touched[src] \cup {key}]
    /\ receiver' = Borrowed(src, dst)
    /\ UNCHANGED << panicked, iter_state, source >>

\* dst = src.update(key, value): the receiver src is borrowed, the result
\* is bound to dst (dst = src rebinds the receiver's own variable).
Update(src, dst, key, value) ==
    /\ Idle
    /\ Step
    /\ Grows(maps[src], key) => Len(maps[src].entries) < MaxSlots
    /\ IF WritePanics(maps[src], key)
       THEN /\ panicked' = TRUE
            /\ UNCHANGED << maps, model, touched >>
       ELSE /\ maps' = [maps EXCEPT ![dst] = update(maps[src], key, value)]
            /\ model' = [model EXCEPT ![dst] = RefWrite(model[src], key, value)]
            /\ touched' = [touched EXCEPT ![dst] = touched[src] \cup {key}]
            /\ UNCHANGED panicked
    /\ receiver' = Borrowed(src, dst)
    /\ UNCHANGED << iter_state, source >>

\* dst = src.without(&key).
Without(src, dst, key) ==
    /\ Idle
    /\ Step
    /\ IF WritePanics(maps[src], key)
       THEN /\ panicked' = TRUE
            /\ UNCHANGED << maps, model, touched >>
       ELSE /\ maps' = [maps EXCEPT ![dst] = without(maps[src], key)]
            /\ model' = [model EXCEPT ![dst] = RefDelete(model[src], key)]
            /\ touched' = [touched EXCEPT ![dst] = touched[src] \cup {key}]
            /\ UNCHANGED panicked
    /\ receiver' = Borrowed(src, dst)
    /\ UNCHANGED << iter_state, source >>

\* h.remove(&key), in place.
Remove(h, key) ==
    /\ Idle
    /\ Step
    /\ maps' = [maps EXCEPT ![h] = remove(maps[h], key)]
    /\ panicked' = WritePanics(maps[h], key)
    /\ model' = [model EXCEPT ![h] = RefDelete(model[h], key)]
    /\ touched' = [touched EXCEPT ![h] = touched[h] \cup {key}]
    /\ receiver' = None
    /\ UNCHANGED << iter_state, source >>

\* dst = src.clone(): the three fields are cloned.
Clone(src, dst) ==
    /\ Idle
    /\ Step
    /\ maps' = [maps EXCEPT ![dst] =
                  [indices |-> maps[src].indices, entries |-> maps[src].entries,
                   hash_builder |-> maps[src].hash_builder]]
    /\ model' = [model EXCEPT ![dst] = model[src]]
    /\ touched' = [touched EXCEPT ![dst] = touched[src]]
    /\ receiver' = None
    /\ UNCHANGED << panicked, iter_state, source >>

\* The finite sequences over S of length at most n.
SeqsUpTo(S, n) == UNION { [1..i -> S] : i \in 0..n }

RECURSIVE RefWriteAll(_, _)
RefWriteAll(ref, pairs) ==
    IF pairs = << >> THEN ref
    ELSE RefWriteAll(RefWrite(ref, Head(pairs)[1], Head(pairs)[2]), Tail(pairs))

\* let h: IndexMap<_, _> = pairs.into_iter().collect().
FromIter(h, hb, pairs) ==
    /\ Idle
    /\ Step
    /\ maps' = [maps EXCEPT ![h] = from_iter(hb, pairs)]
    /\ model' = [model EXCEPT ![h] = RefWriteAll(<< >>, pairs)]
    /\ touched' = [touched EXCEPT ![h] = { pairs[i][1] : i \in 1..Len(pairs) }]
    /\ source' = Some([kind |-> "map", handle |-> h, items |-> pairs])
    /\ receiver' = None
    /\ UNCHANGED << panicked, iter_state >>

\* let h: IndexSet<_> = items.into_iter().collect().
SetFromIter(h, hb, items) ==
    /\ Idle
    /\ Step
    /\ maps' = [maps EXCEPT ![h] = set_from_iter(hb, items)]
    /\ model' = [model EXCEPT ![h] =
                   RefWriteAll(<< >>, [i \in 1..Len(items) |-> << items[i], Unit >>])]
    /\ touched' = [touched EXCEPT ![h] = { items[i] : i \in 1..Len(items) }]
    /\ source' = Some([kind |-> "set", handle |-> h, items |-> items])
    /\ receiver' = None
    /\ UNCHANGED << panicked, iter_state >>

\* for (k, v) in h { .. }: IndexMap::into_iter moves the slot vector into
\* a ConsumingIter; the loop runs until next() returns None.
IntoIter(h) ==
    /\ Idle
    /\ iter_state' = [active |-> TRUE, kind |-> "into_iter", handle |-> h,
                      entries |-> maps[h].entries, out |-> << >>,
                      done |-> FALSE]
    /\ UNCHANGED << maps, panicked, model, touched, ops, receiver, source >>

\* IntoIter::next: self.entries.next().flatten().map(|b| (b.key, b.value)).
\* entries.next() is None at the end and Some(slot) otherwise; flatten()
\* turns Some(None), a tombstone, into None as well.
IntoIterNext ==
    /\ iter_state.active /\ ~iter_state.done
    /\ iter_state.kind = "into_iter"
    /\ LET item == IF iter_state.entries = << >> THEN None
                   ELSE Some(Head(iter_state.entries))
           flat == IF item = None THEN None ELSE item[1]
           rest == IF iter_state.entries = << >> THEN << >>
                   ELSE Tail(iter_state.entries)
       IN  iter_state' =
             IF flat = None
             THEN [iter_state EXCEPT !.entries = rest, !.done = TRUE]
             ELSE [iter_state EXCEPT !.entries = rest,
                     !.out = Append(iter_state.out,
                                    << flat[1].key, flat[1].value >>)]
    /\ UNCHANGED << maps, panicked, model, touched, ops, receiver, source >>

\* dst = src.insert(item) on sets: IndexSet::insert is map.update(item, ()).
SetInsert(src, dst, item) == Update(src, dst, item, Unit)

\* dst = src.without(&item) on sets.
SetWithout(src, dst, item) == Without(src, dst, item)

\* let mut it = &h; loop { it.next() }: the iterator implemented on
\* &IndexSet has no state but the reference itself.
SetRefIter(h) ==
    /\ Idle
    /\ iter_state' = [active |-> TRUE, kind |-> "set_ref", handle |-> h,
                      entries |-> maps[h].entries, out |-> << >>,
                      done |-> FALSE]
    /\ UNCHANGED << maps, panicked, model, touched, ops, receiver, source >>

\* <&IndexSet as Iterator>::next: self.iter().next(), the first element of
\* a fresh iter() on every call.  The caller stops reading one item after
\* the slot count, which bounds the run.
SetRefNext ==
    /\ iter_state.active /\ ~iter_state.done
    /\ iter_state.kind = "set_ref"
    /\ Len(iter_state.out) <= Len(iter_state.entries)
    /\ LET fresh == KeysOfPairs(Flatten(iter_state.entries))
       IN  iter_state' =
             IF fresh = << >>
             THEN [iter_state EXCEPT !.done = TRUE]
             ELSE [iter_state EXCEPT !.out = Append(iter_state.out, Head(fresh))]
    /\ UNCHANGED << maps, panicked, model, touched, ops, receiver, source >>

Next ==
    \/ \E h \in Handles, hb \in HashStrategies : New(h, hb)
    \/ \E h \in Handles, k \in Keys, v \in Values : Insert(h, k, v)
    \/ \E s, d \in Handles, k \in Keys, v \in Values : Update(s, d, k, v)
    \/ \E s, d \in Handles, k \in Keys : Without(s, d, k)
    \/ \E h \in Handles, k \in Keys : Remove(h, k)

\* Every operation of the map, on both handles.
Spec == Init /\ [][Next]_vars

\* Programs that use the functional API alone.
NextFunctional ==
    \/ \E s, d \in Handles, k \in Keys, v \in Values : Update(s, d, k, v)
    \/ \E s, d \in Handles, k \in Keys : Without(s, d, k)

SpecFunctional == Init /\ [][NextFunctional]_vars

\* Programs that keep a snapshot: every result is bound to the other
\* variable, so the receiver stays alive next to its result.
NextChain ==
    \/ \E s, d \in Handles, k \in Keys, v \in Values :
          s # d /\ Update(s, d, k, v)
    \/ \E s, d \in Handles, k \in Keys : s # d /\ Without(s, d, k)

SpecChain == Init /\ [][NextChain]_vars

\* One owned map whose program never calls the in-place remove.
NextTombstone ==
    \/ \E hb \in HashStrategies : New("a", hb)
    \/ \E k \in Keys, v \in Values : Insert("a", k, v)
    \/ \E k \in Keys, v \in Values : Update("a", "a", k, v)
    \/ \E k \in Keys : Without("a", "a", k)

SpecTombstone == Init /\ [][NextTombstone]_vars

\* Programs that build one map by successive functional updates.
NextBuild == \E k \in Keys, v \in Values : Update("a", "a", k, v)

SpecBuild == Init /\ [][NextBuild]_vars

\* Programs that build one map with update and without and then consume it.
NextIter ==
    \/ \E k \in Keys, v \in Values : Update("a", "a", k, v)
    \/ \E k \in Keys : Without("a", "a", k)
    \/ IntoIter("a")
    \/ IntoIterNext

SpecIter == Init /\ [][NextIter]_vars

\* One owned map driven through every operation, in place or rebinding.
NextOwned ==
    \/ \E hb \in HashStrategies : New("a", hb)
    \/ \E k \in Keys, v \in Values : Insert("a", k, v)
    \/ \E k \in Keys, v \in Values : Update("a", "a", k, v)
    \/ \E k \in Keys : Without("a", "a", k)
    \/ \E k \in Keys : Remove("a", k)

SpecOwned == Init /\ [][NextOwned]_vars

\* Programs that build one set and then loop over a reference to it.
NextSetIter ==
    \/ \E e \in Keys : SetInsert("a", "a", e)
    \/ \E e \in Keys : SetWithout("a", "a", e)
    \/ SetRefIter("a")
    \/ SetRefNext

SpecSetIter == Init /\ [][NextSetIter]_vars

\* Programs that work on sets and keep the receiver of every call alive.
NextSet ==
    \/ \E s, d \in Handles, e \in Keys : s # d /\ SetInsert(s, d, e)
    \/ \E s, d \in Handles, e \in Keys : s # d /\ SetWithout(s, d, e)

SpecSet == Init /\ [][NextSet]_vars

\* A map built by inserts, cloned, and the clone shrunk in place.
NextRemove ==
    \/ \E k \in Keys, v \in Values : Insert("a", k, v)
    \/ Clone("a", "b")
    \/ \E k \in Keys : Remove("b", k)

SpecRemove == Init /\ [][NextRemove]_vars

\* One owned map changed in place only.
NextInPlace ==
    \/ \E k \in Keys, v \in Values : Insert("a", k, v)
    \/ \E k \in Keys : Remove("a", k)

SpecInPlace == Init /\ [][NextInPlace]_vars

\* Programs that collect one map or one set from a sequence.
NextCollect ==
    \/ /\ source = None
       /\ \E hb \in HashStrategies, pairs \in SeqsUpTo(Keys \X Values, MaxLen) :
             FromIter("a", hb, pairs)
    \/ /\ source = None
       /\ \E hb \in HashStrategies, items \in SeqsUpTo(Keys, MaxLen) :
             SetFromIter("a", hb, items)

SpecCollect == Init /\ [][NextCollect]_vars

\* ------------------------------------------------------------------ claims
SameObservations(m1, m2) ==
    /\ \A j \in Keys : get(m1, j) = get(m2, j)
    /\ iter(m1) = iter(m2)
    /\ len(m1) = len(m2)

Live(m) == { iter(m)[i][1] : i \in 1..Len(iter(m)) }

KeysOf(pairs) == [i \in 1..Len(pairs) |-> pairs[i][1]]

WithoutKey(pairs, key) == SelectSeq(pairs, LAMBDA p : p[1] # key)

\* The keys the lineage of handle h was called with have distinct hash codes.
DistinctHashes(h) == Injective(maps[h].hash_builder, touched[h])

\* C1: after dst = src.update(k, v) or dst = src.without(k) the receiver
\* src has the lookups, the iteration sequence and the len it had before
\* the call.
C1_Persistence ==
    receiver # None =>
      SameObservations(maps[receiver[1].handle], receiver[1].before)

\* A result that differs from its still-live receiver.
C1_Witness ==
    /\ receiver # None
    /\ receiver[1].handle = "a"
    /\ Len(maps["a"].entries) > 1
    /\ \E k \in Keys :
         \/ /\ maps["b"] = without(maps["a"], k)
            /\ get(maps["a"], k) # None
         \/ \E v \in Values :
              /\ maps["b"] = update(maps["a"], k, v)
              /\ get(maps["a"], k) # Some(v)

\* C2: with distinct hash codes, without(k) of a live key k turns k's slot
\* into a tombstone and changes no other slot, so the result iterates the
\* receiver's pairs minus k in the same order, no longer resolves k, and
\* resolves every other key as before.
C2_TombstoneStability ==
    \A h \in Handles :
      DistinctHashes(h) =>
        \A k \in Live(maps[h]) :
          LET m == maps[h]
              r == without(m, k)
          IN  /\ iter(r) = WithoutKey(iter(m), k)
              /\ get(r, k) = None
              /\ \A j \in Keys \ {k} : get(r, j) = get(m, j)
              /\ Len(r.entries) = Len(m.entries)
              /\ \A i \in 1..Len(m.entries) :
                   r.entries[i] =
                     IF m.entries[i] # None /\ m.entries[i][1].key = k
                     THEN None ELSE m.entries[i]

\* b is a.without(k) for a live key k that is followed by other live keys.
C2_Witness ==
    /\ DistinctHashes("a")
    /\ \E k \in Live(maps["a"]) :
         /\ maps["b"] = without(maps["a"], k)
         /\ iter(maps["a"])[Len(iter(maps["a"]))][1] # k
         /\ Len(iter(maps["a"])) = MaxSlots

\* C3: with distinct hash codes and no in-place remove, iteration yields the
\* live keys in the order in which each was inserted while absent (the
\* reference list appends a key that is absent and drops a removed one), and
\* writing a key that is present leaves the key order as it is.
C3_OrderPreservation ==
    \A h \in Handles :
      DistinctHashes(h) =>
        /\ KeysOf(iter(maps[h])) = KeysOf(model[h])
        /\ \A k \in Live(maps[h]), v \in Values :
             /\ KeysOf(iter(update(maps[h], k, v))) = KeysOf(iter(maps[h]))
             /\ KeysOf(iter(insert(maps[h], k, v))) = KeysOf(iter(maps[h]))

\* Two keys fill three slots: one of them was removed and inserted again.
C3_Witness ==
    /\ DistinctHashes("a")
    /\ Len(maps["a"].entries) = 3
    /\ maps["a"].entries[1] = None
    /\ Cardinality(touched["a"]) = 2
    /\ Len(iter(maps["a"])) = 2

\* C4: on every map a program can hold, update(k, v1).update(k, v2) runs,
\* resolves k to v2 and has the size of update(k, v1); likewise for two
\* in-place inserts.
C4_Overwrite ==
    \A h \in Handles, k \in Keys, v1, v2 \in Values :
      ~panicked =>
        /\ ~WritePanics(maps[h], k)
        /\ LET u1 == update(maps[h], k, v1)
               u2 == update(u1, k, v2)
               i1 == insert(maps[h], k, v1)
               i2 == insert(i1, k, v2)
           IN  /\ get(u2, k) = Some(v2)
               /\ len(u2) = len(u1)
               /\ Len(iter(u2)) = Len(iter(u1))
               /\ get(i2, k) = Some(v2)
               /\ len(i2) = len(i1)
               /\ Len(iter(i2)) = Len(iter(i1))

\* C5 as stated: a map built by successive updates of pairwise distinct
\* keys resolves every key of the sequence to its value and no other key.
C5_RoundTrip ==
    ops = Len(model["a"]) =>
      \A k \in Keys : get(maps["a"], k) = RefGet(model["a"], k)

\* C5 as amended: the same, for keys whose hash codes are pairwise distinct
\* under the map's hash strategy.
C5_RoundTripDistinctHashes ==
    (ops = Len(model["a"]) /\ DistinctHashes("a")) =>
      \A k \in Keys : get(maps["a"], k) = RefGet(model["a"], k)

\* A map built from as many distinct keys as the slot bound allows.
C5_Witness ==
    /\ ops = Len(model["a"])
    /\ DistinctHashes("a")
    /\ Len(model["a"]) = MaxSlots
    /\ \A i \in 1..MaxSlots :
         get(maps["a"], model["a"][i][1]) = Some(model["a"][i][2])

\* C6: without(k) of a key that get reports absent runs and returns a map
\* with the receiver's iteration and lookups, equal to the receiver.
C6_AbsentRemovalNoOp ==
    \A h \in Handles, k \in Keys :
      (~panicked /\ get(maps[h], k) = None) =>
        /\ ~WritePanics(maps[h], k)
        /\ LET r == without(maps[h], k)
           IN  /\ iter(r) = iter(maps[h])
               /\ \A j \in Keys : get(r, j) = get(maps[h], j)
               /\ eq(r, maps[h])

ContentEqual(a, b) ==
    /\ Len(iter(a)) = Len(iter(b))
    /\ \A i \in 1..Len(iter(a)) : get(b, iter(a)[i][1]) = Some(iter(a)[i][2])

\* C7: two maps compare equal exactly when they hold the same number of
\* live entries and every live key of the first resolves in the second to
\* an equal value.
C7_ContentEquality ==
    \A x, y \in Handles :
      eq(maps[x], maps[y]) <=> ContentEqual(maps[x], maps[y])

\* C8: no sequence of operations reaches a panic.
C8_Totality == ~panicked

\* C9: get returns absent or the value of the Present bucket at the
\* tracked position whose stored key equals the probe key; an untracked
\* hash, a position past the end, a tombstone and a key mismatch all give
\* absent; contains_key is true exactly when get is present.
C9_LookupFailsClosed ==
    \A h \in Handles, k \in Keys :
      LET m     == maps[h]
          g     == get(m, k)
          found == IndicesGet(m.indices, hash(m, k))
      IN  /\ g # None =>
               /\ found # None
               /\ ~OutOfBounds(m.entries, found[1])
               /\ m.entries[found[1] + 1] # None
               /\ m.entries[found[1] + 1][1].key = k
               /\ m.entries[found[1] + 1][1].value = g[1]
          /\ contains_key(m, k) <=> g # None

\* After an in-place remove one hash points at another key's slot and one
\* points past the end; both lookups are absent.
C9_Witness ==
    LET m == maps["a"]
    IN  \E k1, k2 \in Keys :
          /\ k1 \in DOMAIN m.hash_builder /\ hash(m, k1) \in DOMAIN m.indices
          /\ ~OutOfBounds(m.entries, m.indices[hash(m, k1)])
          /\ m.entries[m.indices[hash(m, k1)] + 1] # None
          /\ m.entries[m.indices[hash(m, k1)] + 1][1].key # k1
          /\ get(m, k1) = None
          /\ hash(m, k2) \in DOMAIN m.indices
          /\ OutOfBounds(m.entries, m.indices[hash(m, k2)])
          /\ get(m, k2) = None

\* C10: consuming iteration, read until next() first returns None, has
\* yielded the pairs that iter() yields on the same map.
C10_ConsumingIteration ==
    (iter_state.active /\ iter_state.done) =>
      iter_state.out = iter(maps[iter_state.handle])

\* C11: the iterator implemented on &IndexSet yields each element of the
\* set once, in insertion order, and signals the end after the last one: it
\* never yields more items than the set has elements, and when it has
\* signalled the end it has yielded exactly the elements of iter().
C11_SetIterationFinite ==
    (iter_state.active /\ iter_state.kind = "set_ref") =>
      /\ Len(iter_state.out) <= Len(set_iter(maps[iter_state.handle]))
      /\ iter_state.done => iter_state.out = set_iter(maps[iter_state.handle])

\* s.insert(e) applied n times in succession.
RECURSIVE InsertTimes(_, _, _)
InsertTimes(s, e, n) ==
    IF n = 0 THEN s ELSE InsertTimes(set_insert(s, e), e, n - 1)

\* C12: inserting e into a set n >= 1 times in succession gives a set that
\* contains e and iterates and measures as after one insert (one element
\* when the set held none), and the receiver of an insert is unchanged.
C12_SetIdempotence ==
    /\ \A h \in Handles, e \in Keys, n \in 1..MaxRepeat :
         LET once == set_insert(maps[h], e)
             many == InsertTimes(maps[h], e, n)
         IN  /\ set_contains(many, e)
             /\ set_iter(many) = set_iter(once)
             /\ set_len(many) = set_len(once)
             /\ set_iter(maps[h]) = << >> => Len(set_iter(many)) = 1
    /\ receiver # None =>
         SameObservations(maps[receiver[1].handle], receiver[1].before)

\* b is a.insert(e) for an element e that a, which was itself obtained by
\* inserting e, already contains; a is still alive.
C12_Witness ==
    /\ receiver = Some([handle |-> "a", before |-> maps["a"]])
    /\ \E e \in Keys :
         /\ set_contains(maps["a"], e)
         /\ maps["b"] = set_insert(maps["a"], e)
         /\ set_iter(maps["b"]) = << e >>
         /\ model["b"] = << << e, Unit >> >>
         /\ ops >= 2

\* I1 for one (hash, position) entry of the index of m.
I1At(m, h) ==
    /\ ~OutOfBounds(m.entries, m.indices[h])
    /\ IsSome(m.entries[m.indices[h] + 1])
    /\ hash(m, m.entries[m.indices[h] + 1][1].key) = h

I1(m) == \A h \in DOMAIN m.indices : I1At(m, h)

\* C13: in every state reached from the empty map by update, without and
\* in-place insert, with keys that may share hash codes, every entry of the
\* index points inside the slot sequence at a Present slot whose key hashes
\* to the entry's hash code.
C13_IndexSlotConsistency == \A h \in Handles : I1(maps[h])

\* Two keys with one hash code have been written, a slot is a tombstone and
\* a later write has been indexed behind it.
C13_Witness ==
    /\ \E k1, k2 \in touched["a"] :
         k1 # k2 /\ hash(maps["a"], k1) = hash(maps["a"], k2)
    /\ \E i, j \in 1..Len(maps["a"].entries) :
         /\ i < j
         /\ ~IsSome(maps["a"].entries[i])
         /\ IsSome(maps["a"].entries[j])
         /\ \E h \in DOMAIN maps["a"].indices : maps["a"].indices[h] = j - 1

\* C14: in a map built by inserts of keys with distinct hash codes,
\* remove(k) of a live key at position p drops k's hash from the index and
\* deletes the slot at p, moving every later slot down by one, while every
\* other index entry keeps its position; I1 then fails for every hash whose
\* slot followed p and holds for every hash whose slot preceded p.
C14_RemoveDesynchronizes ==
    DistinctHashes("a") =>
      \A k \in Keys :
        get(maps["a"], k) # None =>
          LET m == maps["a"]
              p == m.indices[hash(m, k)]
              r == remove(m, k)
          IN  /\ hash(m, k) \notin DOMAIN r.indices
              /\ Len(r.entries) = Len(m.entries) - 1
              /\ \A i \in 1..Len(r.entries) :
                   r.entries[i] = IF i <= p THEN m.entries[i]
                                  ELSE m.entries[i + 1]
              /\ DOMAIN r.indices = DOMAIN m.indices \ {hash(m, k)}
              /\ \A h \in DOMAIN r.indices :
                   /\ r.indices[h] = m.indices[h]
                   /\ m.indices[h] > p => ~I1At(r, h)
                   /\ m.indices[h] < p => I1At(r, h)

\* b is a clone of the insert-built map a after remove(k) of a live key
\* whose slot had a follower.
C14_Witness ==
    /\ DistinctHashes("a")
    /\ ~panicked
    /\ \E k \in Keys :
         /\ get(maps["a"], k) # None
         /\ maps["a"].indices[hash(maps["a"], k)] + 1 < Len(maps["a"].entries)
         /\ maps["b"] = remove(maps["a"], k)
         /\ ~I1(maps["b"])

\* The call on key k changed nothing for any other key: same lookups, same
\* presence and relative order in the iteration.
OthersKept(k) ==
    /\ \A j \in Keys \ {k} : get(maps'["a"], j) = get(maps["a"], j)
    /\ WithoutKey(iter(maps'["a"]), k) = WithoutKey(iter(maps["a"]), k)

\* C15: on a map driven by insert and remove with keys of distinct hash
\* codes, remove(k) completes, leaves get(k) absent and changes nothing for
\* any other key; remove of a key that is not in the map leaves the map
\* unchanged; insert(j, v) of a key already present changes j's value only.
C15_RemoveFrame ==
    [][\A k \in Keys :
         Injective(maps["a"].hash_builder, touched["a"] \cup {k}) =>
           /\ Remove("a", k) =>
                /\ ~panicked'
                /\ get(maps'["a"], k) = None
                /\ OthersKept(k)
                /\ k \notin Live(maps["a"]) => maps' = maps
           /\ \A v \in Values :
                (Insert("a", k, v) /\ k \in Live(maps["a"])) =>
                  /\ ~panicked'
                  /\ get(maps'["a"], k) = Some(v)
                  /\ OthersKept(k)
                  /\ KeysOf(iter(maps'["a"])) = KeysOf(iter(maps["a"]))]_vars

\* C16: for every map m built by update, without and insert, and every key
\* k and value v, m.insert(k, v) completes exactly when m.update(k, v)
\* does, and leaves m with the index and the slot sequence, hence the
\* lookups, the iteration sequence and the len, of the snapshot that
\* m.update(k, v) returns.
C16_InsertIsUpdateInPlace ==
    \A h \in Handles, k \in Keys, v \in Values :
        /\ ~WritePanics(maps[h], k)
        /\ insert(maps[h], k, v) = update(maps[h], k, v)
        /\ SameObservations(insert(maps[h], k, v), update(maps[h], k, v))

\* The last call was an in-place insert on a map that holds a tombstone, a
\* key whose hash is tracked under another stored key, and an untracked key.
C16_Witness ==
    /\ receiver = None
    /\ ops >= 3
    /\ \E i \in 1..Len(maps["a"].entries) : ~IsSome(maps["a"].entries[i])
    /\ \E k \in Keys : Grows(maps["a"], k)
    /\ \E k \in Keys :
         /\ ~Grows(maps["a"], k)
         /\ get(maps["a"], k) = None
    /\ \E k \in Keys, v \in Values :
         /\ model["a"] # << >>
         /\ model["a"][Len(model["a"])] = << k, v >>
         /\ get(maps["a"], k) = Some(v)

\* What a write of (k2, v) giving r does to a map m in which another live
\* key k1 has the hash code of k2.
Displaces(m, r, k1, k2, v) ==
    /\ get(r, k2) = Some(v)
    /\ get(r, k1) = None
    /\ hash(m, k2) \in DOMAIN r.indices
    /\ EntriesGet(r.entries, r.indices[hash(m, k2)]) = Some(Some(Bucket(k2, v)))
    /\ \A j \in Keys : hash(m, j) # hash(m, k2) => get(r, j) = get(m, j)

\* C17: the index, a map from hash codes to positions, tracks at most one
\* slot per hash code; update(k2, v) or insert(k2, v) on a map in which a
\* different live key k1 has the hash code of k2 completes, after it
\* get(k2) is v, the entry of that hash leads to k2's bucket, get(k1) is
\* absent, and every key with another hash code keeps its lookup result.
C17_CollisionOverwrites ==
    \A h \in Handles :
      LET m == maps[h]
      IN  /\ \A k1, k2 \in Keys :
               (hash(m, k1) = hash(m, k2) /\ get(m, k1) # None
                  /\ get(m, k2) # None) => k1 = k2
          /\ \A k1, k2 \in Keys, v \in Values :
               (k1 # k2 /\ hash(m, k1) = hash(m, k2) /\ k1 \in Live(m)) =>
                  /\ ~WritePanics(m, k2)
                  /\ Displaces(m, update(m, k2, v), k1, k2, v)
                  /\ Displaces(m, insert(m, k2, v), k1, k2, v)

\* C18: after any sequence of update, insert and without calls, from the
\* empty map, on keys with pairwise distinct hash codes, get(k) is the
\* lookup of k in the reference mapping that applied the same writes and
\* deletions, contains_key(k) holds exactly when the reference contains k,
\* and the iteration yields exactly the reference's pairs.
C18_ReferenceAgreement ==
    \A h \in Handles :
      DistinctHashes(h) =>
        /\ \A k \in Keys :
             /\ get(maps[h], k) = RefGet(model[h], k)
             /\ contains_key(maps[h], k) <=> RefGet(model[h], k) # None
        /\ { iter(maps[h])[i] : i \in 1..Len(iter(maps[h])) }
             = { model[h][i] : i \in 1..Len(model[h]) }
        /\ Len(iter(maps[h])) = Len(model[h])

\* A key was written, deleted and written again, leaving a tombstone in
\* front of a second key that stayed in the map; the hash codes differ.
C18_Witness ==
    /\ DistinctHashes("a")
    /\ ~panicked
    /\ Len(maps["a"].entries) = 3
    /\ ~IsSome(maps["a"].entries[1])
    /\ Len(model["a"]) = 2
    /\ \E k \in Keys :
         /\ model["a"][2][1] = k
         /\ get(maps["a"], k) = Some(model["a"][2][2])
         /\ maps["a"].indices[hash(maps["a"], k)] = 2

\* The index entries that lead to position p of m.
EntriesAt(m, p) == { h \in DOMAIN m.indices : m.indices[h] = p }

PresentSlots(m) == { p \in 0..(Len(m.entries) - 1) : IsSome(m.entries[p + 1]) }

\* C19: in every state reached from the empty map by update, without and
\* insert, no two index entries share a position, every Present slot is
\* the target of exactly one index entry, the index has as many entries as
\* there are Present slots, and every pair yielded by iteration is returned
\* by get.
C19_NoOrphanedOrSharedSlots ==
    \A h \in Handles :
      LET m == maps[h]
      IN  /\ \A h1, h2 \in DOMAIN m.indices :
               m.indices[h1] = m.indices[h2] => h1 = h2
          /\ \A p \in PresentSlots(m) : Cardinality(EntriesAt(m, p)) = 1
          /\ Cardinality(DOMAIN m.indices) = Cardinality(PresentSlots(m))
          /\ \A i \in 1..Len(iter(m)) :
               get(m, iter(m)[i][1]) = Some(iter(m)[i][2])

\* After a write to a hash code that another stored key was tracked under,
\* which took that key's slot, the map holds a Present slot and a tombstone.
C19_Witness ==
    /\ \E k1, k2 \in touched["a"] :
         /\ k1 # k2
         /\ hash(maps["a"], k1) = hash(maps["a"], k2)
         /\ RefGet(model["a"], k1) # None
         /\ RefGet(model["a"], k2) # None
         /\ get(maps["a"], k1) = None
    /\ Cardinality(PresentSlots(maps["a"])) >= 1
    /\ \E p \in 0..(Len(maps["a"].entries) - 1) : p \notin PresentSlots(maps["a"])

\* C20: in every state reached by update, without, insert and remove,
\* len() is the number of pairs iter() yields and is_empty() holds exactly
\* when iter() yields none; the set's len and is_empty agree with the
\* set's iteration in the same way.
C20_SizeAgreesWithContent ==
    \A h \in Handles :
        /\ len(maps[h]) = Len(iter(maps[h]))
        /\ is_empty(maps[h]) <=> iter(maps[h]) = << >>
        /\ set_len(maps[h]) = Len(set_iter(maps[h]))
        /\ set_is_empty(maps[h]) <=> set_iter(maps[h]) = << >>

\* C21: for any two maps a and b reached by update and without, with
\* tombstones at any positions, a == b holds exactly when b == a, and
\* a == a holds; the same for the sets these maps back.
C21_EqualitySymmetricReflexive ==
    \A x, y \in Handles :
        /\ eq(maps[x], maps[y]) <=> eq(maps[y], maps[x])
        /\ eq(maps[x], maps[x])
        /\ set_eq(maps[x], maps[y]) <=> set_eq(maps[y], maps[x])
        /\ set_eq(maps[x], maps[x])

\* The elements of seq, each kept at its first occurrence.
RECURSIVE FirstOccurrences(_)
FirstOccurrences(seq) ==
    IF seq = << >> THEN << >>
    ELSE << Head(seq) >>
         \o FirstOccurrences(SelectSeq(Tail(seq), LAMBDA x : x # Head(seq)))

\* The value paired with key k at its last occurrence in pairs.
LastValue(pairs, k) ==
    LET occ == { i \in 1..Len(pairs) : pairs[i][1] = k }
    IN  pairs[CHOOSE i \in occ : \A j \in occ : j <= i][2]

\* The empty map with functional update applied pair by pair.
RECURSIVE UpdateAll(_, _)
UpdateAll(m, pairs) ==
    IF pairs = << >> THEN m
    ELSE UpdateAll(update(m, Head(pairs)[1], Head(pairs)[2]), Tail(pairs))

\* What the claim says of the collection built from the recorded sequence.
Collected ==
    LET m     == maps[source[1].handle]
        items == source[1].items
    IN  IF source[1].kind = "map"
        THEN /\ \A i \in 1..Len(items) :
                  get(m, items[i][1]) = Some(LastValue(items, items[i][1]))
             /\ KeysOf(iter(m)) = FirstOccurrences(KeysOf(items))
             /\ LET u == UpdateAll(with_hasher(m.hash_builder), items)
                IN  /\ \A j \in Keys : get(m, j) = get(u, j)
                    /\ iter(m) = iter(u)
        ELSE set_iter(m) = FirstOccurrences(items)

\* C22 as stated: a map built from any finite sequence of pairs resolves
\* each key to the value of its last occurrence, iterates each key once at
\* the position of its first occurrence, and has the lookups and iteration
\* of functional update applied pair by pair to the empty map; a set built
\* from a sequence iterates one occurrence of each element in
\* first-occurrence order.
C22_Construction == source # None => Collected

\* C22 as amended: the same, for sequences whose keys (elements) have
\* pairwise distinct hash codes under the collection's hash strategy.
C22_ConstructionDistinctHashes ==
    (source # None /\ DistinctHashes(source[1].handle)) => Collected

\* A map was collected from a sequence that repeats a key with another
\* value after a second key, the hash codes of the two keys being distinct.
C22_Witness ==
    /\ source # None
    /\ source[1].kind = "map"
    /\ DistinctHashes(source[1].handle)
    /\ Len(source[1].items) = 3
    /\ source[1].items[1][1] = source[1].items[3][1]
    /\ source[1].items[1][2] # source[1].items[3][2]
    /\ source[1].items[1][1] # source[1].items[2][1]
    /\ maps[source[1].handle] = from_iter(maps[source[1].handle].hash_builder,
                                          source[1].items)
    /\ Len(iter(maps[source[1].handle])) = 2

====
